---- MODULE Spec2Model ----
(***************************************************************************)
(* Model of the order-notification listener of monerium/go-sdk             *)
(* (monerium/orders.go, monerium/client.go).                               *)
(*                                                                         *)
(* One subscription: a single call of Client.OrdersNotifications, the      *)
(* goroutine it starts, the caller's context, the ticker, the websocket    *)
(* connection with the frames the server emits on it, and the consumer     *)
(* of the sink channel.                                                    *)
(***************************************************************************)
EXTENDS Integers, Sequences, FiniteSets, TLC

(* ---------------------------- bounds ---------------------------------- *)
\* frames the server emits on the connection
MaxFrames == 3
\* reads the listener starts
MaxReads == 3

(* ---------------------------- values ---------------------------------- *)
\* a Go error is the chain of its messages, outermost first; nil is empty
NoErr == <<>>
\* a nil *Order; a non-nil pointer is a one-element sequence
NilOrder == <<>>

Wrap(msg, e) == <<msg>> \o e

MessageText == "text"
MessageBinary == "binary"

OrderStates == {"placed", "pending", "processed"}

\* payloads of the frames: a JSON document of an order, or bytes that
\* do not decode
GoodBodies == {[valid |-> TRUE, id |-> "o1", state |-> s] : s \in OrderStates}
BadBody == [valid |-> FALSE, id |-> "", state |-> ""]

Frames ==
  {[mt |-> MessageText, bs |-> b] : b \in GoodBodies \cup {BadBody}}
    \cup {[mt |-> MessageBinary, bs |-> BadBody]}

WellFormed(f) == f.mt = MessageText /\ f.bs.valid

\* the order of the state changes the websocket emits for one order
Rank(s) ==
  CASE s = "placed" -> 1 [] s = "pending" -> 2 [] s = "processed" -> 3
    [] OTHER -> 0

wsURL == "wss://api"
Tokens == {[AccessToken |-> "t1"], [AccessToken |-> "t2"]}
TokenError == <<"token source failed">>
DialError == <<"dial failed">>
ContextCanceled == <<"context canceled">>
NetError == <<"connection lost">>

\* *OrdersNotificationsRequest: nil, empty ProfileID, a ProfileID
Requests == {<<>>, <<[ProfileID |-> ""]>>, <<[ProfileID |-> "p1"]>>}

(* ---------------------------- state ----------------------------------- *)
VARIABLES
  called,      \* OrdersNotifications has been called and has returned
  retErr,      \* the error it returned
  tokenCalls,  \* calls of tokenSource.Token()
  tokErr,      \* the error Token() returned
  dialCalls,   \* calls of websocket.Dial
  dialErr,     \* the error Dial returned
  dialled,     \* path and header handed to Dial, <<>> when not dialled
  args,        \* the request of the call and the token Token() returned
  ticker,      \* time.NewTicker has been called
  tickC,       \* ticks buffered in ticker.C (capacity 1)
  ctxDone,     \* the caller's context is cancelled
  pc,          \* position of the goroutine
  o,           \* goroutine local: the order readOrder returned
  err,         \* goroutine local: the error readOrder returned
  conn,        \* "none", "open", "broken" or "closed"
  closeCalls,  \* calls of wc.Close
  emitted,     \* frames the server has emitted on the connection
  rd,          \* frames of emitted consumed by conn.Read
  reads,       \* reads started by the goroutine
  readAfterCancel,  \* a read has started with the context already cancelled
  received,    \* OrderResults the consumer has received, in order
  consumer,    \* "receiving", "cancelled" or "closed": the reader of the sink
  placed       \* the last call of PlaceOrder, <<>> before any

vars == <<called, retErr, tokenCalls, tokErr, dialCalls, dialErr, dialled,
          args, ticker, tickC, ctxDone, pc, o, err, conn, closeCalls, emitted, rd,
          reads, readAfterCancel, received, consumer, placed>>

callVars == <<called, retErr, tokenCalls, tokErr, dialCalls, dialErr,
              dialled, args>>

Init ==
  /\ called = FALSE
  /\ retErr = NoErr
  /\ tokenCalls = 0
  /\ tokErr = NoErr
  /\ dialCalls = 0
  /\ dialErr = NoErr
  /\ dialled = <<>>
  /\ args = <<>>
  /\ ticker = FALSE
  /\ tickC = 0
  /\ ctxDone = FALSE
  /\ pc = "notStarted"
  /\ o = NilOrder
  /\ err = NoErr
  /\ conn = "none"
  /\ closeCalls = 0
  /\ emitted = <<>>
  /\ rd = 0
  /\ reads = 0
  /\ readAfterCancel = FALSE
  /\ received = <<>>
  /\ consumer = "receiving"
  /\ placed = <<>>

(* ---------------------------- helpers --------------------------------- *)
OrderResult(order, e) == [Order |-> order, Error |-> e]

\* ctx.Err()
ctxErr == IF ctxDone THEN ContextCanceled ELSE NoErr

newAuthorizationHeaderFrom(tok) ==
  [Authorization |-> <<"Bearer ", tok.AccessToken>>]

\* the path built without the test for an empty ProfileID
notificationsPath_NoEmptyCheck(req) ==
  IF req # <<>>
    THEN <<wsURL, "/profiles/", req[1].ProfileID, "/orders">>
    ELSE <<wsURL, "/orders">>

\* the path OrdersNotifications builds
notificationsPath(req) ==
  IF req # <<>> /\ req[1].ProfileID # ""
    THEN <<wsURL, "/profiles/", req[1].ProfileID, "/orders">>
    ELSE <<wsURL, "/orders">>

\* json.Unmarshal into a fresh Order: <<pointer, error>>
newOrderFrom(bs) ==
  IF bs.valid
    THEN <<<<[ID |-> bs.id, State |-> bs.state]>>, NoErr>>
    ELSE <<NilOrder, <<"invalid character">>>>

\* readOrder, applied to what conn.Read returned: <<pointer, error>>
readOrder(r) ==
  IF r.err # NoErr
    THEN <<NilOrder, Wrap("failed to read from websocket", r.err)>>
    ELSE IF r.mt # MessageText
      THEN <<NilOrder, <<"unsupported message type", r.mt>>>>
      ELSE LET d == newOrderFrom(r.bs)
           IN IF d[2] # NoErr
                THEN <<NilOrder, Wrap("failed to build order", d[2])>>
                ELSE <<d[1], NoErr>>

(* ------------------- Client.OrdersNotifications ----------------------- *)
\* OrdersNotifications going on to dial although Token() failed
OrdersNotifications_IgnoreTokenErr(req, tok, te, de) ==
  /\ ~called
  /\ called' = TRUE
  /\ tokenCalls' = tokenCalls + 1
  /\ tokErr' = te
  /\ args' = <<[req |-> req, tok |-> IF te = NoErr THEN <<tok>> ELSE <<>>]>>
  /\ dialCalls' = dialCalls + 1
  /\ dialErr' = de
  /\ dialled' = <<[path |-> notificationsPath(req),
                   header |-> newAuthorizationHeaderFrom(tok)]>>
  /\ IF de # NoErr
       THEN /\ retErr' = Wrap("failed to dial websocket", de)
            /\ UNCHANGED <<ticker, pc, conn>>
       ELSE /\ retErr' = NoErr
            /\ conn' = "open"
            /\ ticker' = TRUE
            /\ pc' = "select"
  /\ UNCHANGED <<tickC, ctxDone, o, err, closeCalls, emitted, rd, reads,
                 readAfterCancel, received,
                 consumer, placed>>

\* OrdersNotifications starting the ticker and the goroutine although the
\* dial failed
OrdersNotifications_IgnoreDialErr(req, tok, te, de) ==
  /\ ~called
  /\ called' = TRUE
  /\ tokenCalls' = tokenCalls + 1
  /\ tokErr' = te
  /\ args' = <<[req |-> req, tok |-> IF te = NoErr THEN <<tok>> ELSE <<>>]>>
  /\ IF te # NoErr
       THEN /\ retErr' = Wrap("failed to get auth token", te)
            /\ UNCHANGED <<dialCalls, dialErr, dialled, ticker, pc, conn>>
       ELSE /\ dialCalls' = dialCalls + 1
            /\ dialErr' = de
            /\ dialled' = <<[path |-> notificationsPath(req),
                             header |-> newAuthorizationHeaderFrom(tok)]>>
            /\ retErr' = NoErr
            /\ conn' = "open"
            /\ ticker' = TRUE
            /\ pc' = "select"
  /\ UNCHANGED <<tickC, ctxDone, o, err, closeCalls, emitted, rd, reads,
                 readAfterCancel, received,
                 consumer, placed>>

\* OrdersNotifications performing a first send on the sink itself, before
\* it returns
OrdersNotifications_SendsInCall(req, tok, te, de) ==
  /\ ~called
  /\ called' = TRUE
  /\ tokenCalls' = tokenCalls + 1
  /\ tokErr' = te
  /\ args' = <<[req |-> req, tok |-> IF te = NoErr THEN <<tok>> ELSE <<>>]>>
  /\ IF te # NoErr
       THEN /\ retErr' = Wrap("failed to get auth token", te)
            /\ UNCHANGED <<dialCalls, dialErr, dialled, ticker, pc, conn,
                           received>>
       ELSE /\ dialCalls' = dialCalls + 1
            /\ dialErr' = de
            /\ dialled' = <<[path |-> notificationsPath(req),
                             header |-> newAuthorizationHeaderFrom(tok)]>>
            /\ IF de # NoErr
                 THEN /\ retErr' = Wrap("failed to dial websocket", de)
                      /\ UNCHANGED <<ticker, pc, conn, received>>
                 ELSE /\ retErr' = NoErr
                      /\ conn' = "open"
                      /\ ticker' = TRUE
                      /\ pc' = "select"
                      /\ received' = <<OrderResult(NilOrder, NoErr)>>
  /\ UNCHANGED <<tickC, ctxDone, o, err, closeCalls, emitted, rd, reads,
                 readAfterCancel, consumer, placed>>

\* tok, te: what tokenSource.Token() returns; de: what websocket.Dial returns
OrdersNotifications(req, tok, te, de) ==
  /\ ~called
  /\ called' = TRUE
  /\ tokenCalls' = tokenCalls + 1
  /\ tokErr' = te
  /\ args' = <<[req |-> req, tok |-> IF te = NoErr THEN <<tok>> ELSE <<>>]>>
  /\ IF te # NoErr
       THEN /\ retErr' = Wrap("failed to get auth token", te)
            /\ UNCHANGED <<dialCalls, dialErr, dialled, ticker, pc, conn>>
       ELSE /\ dialCalls' = dialCalls + 1
            /\ dialErr' = de
            /\ dialled' = <<[path |-> notificationsPath(req),
                             header |-> newAuthorizationHeaderFrom(tok)]>>
            /\ IF de # NoErr
                 THEN /\ retErr' = Wrap("failed to dial websocket", de)
                      /\ UNCHANGED <<ticker, pc, conn>>
                 ELSE /\ retErr' = NoErr
                      /\ conn' = "open"
                      /\ ticker' = TRUE
                      /\ pc' = "select"
  /\ UNCHANGED <<tickC, ctxDone, o, err, closeCalls, emitted, rd, reads,
                 readAfterCancel, received,
                 consumer, placed>>

\* a dial under a cancelled context fails
Call ==
  \E req \in Requests, tok \in Tokens, te \in {NoErr, TokenError},
     de \in {NoErr, DialError} :
       /\ (ctxDone => de # NoErr)
       /\ OrdersNotifications(req, tok, te, de)

(* ---------------------------- goroutine ------------------------------- *)
\* the cancellation branch without wc.Close
CancelBranch_NoClose ==
  /\ pc = "select"
  /\ ctxDone
  /\ pc' = "sendCancel"
  /\ UNCHANGED <<callVars, ticker, tickC, ctxDone, o, err, conn, closeCalls,
                 emitted, rd, reads, readAfterCancel, received,
                 consumer, placed>>

\* case <-ctx.Done(): wc.Close(...), then the send of the final result
CancelBranch ==
  /\ pc = "select"
  /\ ctxDone
  /\ conn' = "closed"
  /\ closeCalls' = closeCalls + 1
  /\ pc' = "sendCancel"
  /\ UNCHANGED <<callVars, ticker, tickC, ctxDone, o, err, emitted, rd, reads,
                 readAfterCancel, received,
                 consumer, placed>>

\* the cancellation branch without its return: the loop goes on
SendCancel_NoReturn ==
  /\ pc = "sendCancel"
  /\ received' = Append(received, OrderResult(NilOrder, ctxErr))
  /\ pc' = "select"
  /\ UNCHANGED <<callVars, ticker, tickC, ctxDone, o, err, conn, closeCalls,
                 emitted, rd, reads, readAfterCancel,
                 consumer, placed>>

\* os <- &OrderResult{nil, ctx.Err()} is received; return
SendCancel ==
  /\ pc = "sendCancel"
  /\ received' = Append(received, OrderResult(NilOrder, ctxErr))
  /\ pc' = "done"
  /\ UNCHANGED <<callVars, ticker, tickC, ctxDone, o, err, conn, closeCalls,
                 emitted, rd, reads, readAfterCancel,
                 consumer, placed>>

\* case <-ticker.C: readOrder is called and conn.Read starts
TickBranch ==
  /\ pc = "select"
  /\ tickC = 1
  /\ reads < MaxReads
  /\ tickC' = 0
  /\ reads' = reads + 1
  /\ readAfterCancel' = (readAfterCancel \/ ctxDone)
  /\ pc' = "read"
  /\ UNCHANGED <<callVars, ticker, ctxDone, o, err, conn, closeCalls, emitted,
                 rd, received,
                 consumer, placed>>

\* where the goroutine goes with what readOrder returned
afterRead(res) == IF res[2] # NoErr THEN "sendErr" ELSE "sendRes"

\* a read that hands out the next frame without consuming it
ReadFrame_NoAdvance ==
  /\ pc = "read"
  /\ conn = "open"
  /\ rd < Len(emitted)
  /\ LET f == emitted[rd + 1]
         res == readOrder([mt |-> f.mt, bs |-> f.bs, err |-> NoErr])
     IN /\ o' = res[1]
        /\ err' = res[2]
        /\ pc' = afterRead(res)
  /\ UNCHANGED <<callVars, ticker, tickC, ctxDone, conn, closeCalls, emitted,
                 rd, reads, readAfterCancel, received,
                 consumer, placed>>

\* conn.Read returns the next frame
ReadFrame ==
  /\ pc = "read"
  /\ conn = "open"
  /\ rd < Len(emitted)
  /\ LET f == emitted[rd + 1]
         res == readOrder([mt |-> f.mt, bs |-> f.bs, err |-> NoErr])
     IN /\ o' = res[1]
        /\ err' = res[2]
        /\ pc' = afterRead(res)
  /\ rd' = rd + 1
  /\ UNCHANGED <<callVars, ticker, tickC, ctxDone, conn, closeCalls, emitted,
                 reads, readAfterCancel, received,
                 consumer, placed>>

\* a failed read that also closes the connection
ReadFail_Closes ==
  /\ pc = "read"
  /\ \E cause \in {NetError, ContextCanceled} :
       /\ cause = NetError => conn \in {"open", "broken"}
       /\ cause = ContextCanceled => ctxDone
       /\ LET res == readOrder([mt |-> MessageText, bs |-> BadBody,
                                err |-> cause])
          IN /\ o' = res[1]
             /\ err' = res[2]
             /\ pc' = afterRead(res)
  /\ conn' = "broken"
  /\ closeCalls' = closeCalls + 1
  /\ UNCHANGED <<callVars, ticker, tickC, ctxDone, emitted, rd,
                 reads, readAfterCancel, received,
                 consumer, placed>>

\* conn.Read fails: the network connection is lost, or the context is
\* cancelled; a connection that failed a read stays unusable
ReadFail ==
  /\ pc = "read"
  /\ \E cause \in {NetError, ContextCanceled} :
       /\ cause = NetError => conn \in {"open", "broken"}
       /\ cause = ContextCanceled => ctxDone
       /\ LET res == readOrder([mt |-> MessageText, bs |-> BadBody,
                                err |-> cause])
          IN /\ o' = res[1]
             /\ err' = res[2]
             /\ pc' = afterRead(res)
  /\ conn' = "broken"
  /\ UNCHANGED <<callVars, ticker, tickC, ctxDone, closeCalls, emitted, rd,
                 reads, readAfterCancel, received,
                 consumer, placed>>

\* a listener that returns after delivering a read error
SendErr_Return ==
  /\ pc = "sendErr"
  /\ received' = Append(received,
                        OrderResult(NilOrder, Wrap("failed to read order", err)))
  /\ pc' = "done"
  /\ UNCHANGED <<callVars, ticker, tickC, ctxDone, o, err, conn, closeCalls,
                 emitted, rd, reads, readAfterCancel,
                 consumer, placed>>

\* if err != nil { os <- &OrderResult{nil, "failed to read order: %w"} }
\* is received; the goroutine goes on to the next statement
SendErr ==
  /\ pc = "sendErr"
  /\ received' = Append(received,
                        OrderResult(NilOrder, Wrap("failed to read order", err)))
  /\ pc' = "sendRes"
  /\ UNCHANGED <<callVars, ticker, tickC, ctxDone, o, err, conn, closeCalls,
                 emitted, rd, reads, readAfterCancel,
                 consumer, placed>>

\* a send that gives up when nobody is receiving: the result is dropped
SendRes_Drop ==
  /\ pc = "sendRes"
  /\ pc' = "select"
  /\ UNCHANGED <<callVars, ticker, tickC, ctxDone, o, err, conn, closeCalls,
                 emitted, rd, reads, readAfterCancel, received,
                 consumer, placed>>

\* os <- &OrderResult{o, nil} is received; back to the select
SendRes ==
  /\ pc = "sendRes"
  /\ received' = Append(received, OrderResult(o, NoErr))
  /\ pc' = "select"
  /\ UNCHANGED <<callVars, ticker, tickC, ctxDone, o, err, conn, closeCalls,
                 emitted, rd, reads, readAfterCancel,
                 consumer, placed>>

(* ---------------------------- environment ----------------------------- *)
\* the caller cancels the context
Cancel ==
  /\ ~ctxDone
  /\ ctxDone' = TRUE
  /\ UNCHANGED <<callVars, ticker, tickC, pc, o, err, conn, closeCalls,
                 emitted, rd, reads, readAfterCancel, received,
                 consumer, placed>>

\* the ticker fires; a tick is dropped when ticker.C is full
Tick ==
  /\ ticker
  /\ tickC = 0
  /\ tickC' = 1
  /\ UNCHANGED <<callVars, ticker, ctxDone, pc, o, err, conn, closeCalls,
                 emitted, rd, reads, readAfterCancel, received,
                 consumer, placed>>

\* the server emits a frame: the next state change of the order (pending is
\* optional), or a frame the listener cannot decode
ServerEmit ==
  /\ conn # "none"
  /\ Len(emitted) < MaxFrames
  /\ \E f \in Frames :
       /\ WellFormed(f) =>
            \A i \in 1..Len(emitted) :
              WellFormed(emitted[i]) =>
                Rank(emitted[i].bs.state) < Rank(f.bs.state)
       /\ emitted' = Append(emitted, f)
  /\ UNCHANGED <<callVars, ticker, tickC, ctxDone, pc, o, err, conn,
                 closeCalls, rd, reads, readAfterCancel, received,
                 consumer, placed>>

Next ==
  \/ Call
  \/ CancelBranch
  \/ SendCancel
  \/ TickBranch
  \/ ReadFrame
  \/ ReadFail
  \/ SendErr
  \/ SendRes
  \/ Cancel
  \/ Tick
  \/ ServerEmit

Spec == Init /\ [][Next]_vars

(* --------------------- the listener, once started --------------------- *)
\* the state in which OrdersNotifications(nil, t1) has dialled and returned
\* nil: the connection is open, the ticker and the goroutine are started
ListenerInit ==
  /\ called = TRUE
  /\ retErr = NoErr
  /\ tokenCalls = 1
  /\ tokErr = NoErr
  /\ dialCalls = 1
  /\ dialErr = NoErr
  /\ dialled = <<[path |-> notificationsPath(<<>>),
                  header |-> newAuthorizationHeaderFrom([AccessToken |-> "t1"])]>>
  /\ args = <<[req |-> <<>>, tok |-> <<[AccessToken |-> "t1"]>>]>>
  /\ ticker = TRUE
  /\ tickC = 0
  /\ ctxDone = FALSE
  /\ pc = "select"
  /\ o = NilOrder
  /\ err = NoErr
  /\ conn = "open"
  /\ closeCalls = 0
  /\ emitted = <<>>
  /\ rd = 0
  /\ reads = 0
  /\ readAfterCancel = FALSE
  /\ received = <<>>
  /\ consumer = "receiving"
  /\ placed = <<>>

ListenerNext ==
  \/ CancelBranch
  \/ SendCancel
  \/ TickBranch
  \/ ReadFrame
  \/ ReadFail
  \/ SendErr
  \/ SendRes
  \/ Cancel
  \/ Tick
  \/ ServerEmit

\* The consumer keeps receiving, a read under a cancelled context returns,
\* and the select, which picks among its ready cases at random, does not
\* pass over a ready ctx.Done() forever.
FairSpec ==
  /\ ListenerInit
  /\ [][ListenerNext]_vars
  /\ WF_vars(SendErr)
  /\ WF_vars(SendRes)
  /\ WF_vars(SendCancel)
  /\ WF_vars(ctxDone /\ (ReadFrame \/ ReadFail))
  /\ SF_vars(CancelBranch)

(* ------------- the consumer of the README, with the listener ---------- *)
\* the state in which OrdersNotifications(&{ProfileID: p1}, t1) has returned
\* nil and the consumer enters its receive loop
ReadmeInit ==
  /\ called = TRUE
  /\ retErr = NoErr
  /\ tokenCalls = 1
  /\ tokErr = NoErr
  /\ dialCalls = 1
  /\ dialErr = NoErr
  /\ dialled = <<[path |-> notificationsPath(<<[ProfileID |-> "p1"]>>),
                  header |-> newAuthorizationHeaderFrom([AccessToken |-> "t1"])]>>
  /\ args = <<[req |-> <<[ProfileID |-> "p1"]>>, tok |-> <<[AccessToken |-> "t1"]>>]>>
  /\ ticker = TRUE
  /\ tickC = 0
  /\ ctxDone = FALSE
  /\ pc = "select"
  /\ o = NilOrder
  /\ err = NoErr
  /\ conn = "open"
  /\ closeCalls = 0
  /\ emitted = <<>>
  /\ rd = 0
  /\ reads = 0
  /\ readAfterCancel = FALSE
  /\ received = <<>>
  /\ consumer = "receiving"
  /\ placed = <<>>

\* the order the consumer has just received is processed or rejected
ReadmeLastIsFinal ==
  /\ received # <<>>
  /\ received[Len(received)].Order # NilOrder
  /\ received[Len(received)].Order[1].State \in {"processed", "rejected"}

\* o := <-orders, on a result that makes the loop go round
ReadmeAtReceive == consumer = "receiving" /\ ~ReadmeLastIsFinal

ReadmeRecvErr == ReadmeAtReceive /\ SendErr

ReadmeRecvRes == ReadmeAtReceive /\ SendRes

\* cancel() on the first processed or rejected order
ReadmeCancel ==
  /\ consumer = "receiving"
  /\ ReadmeLastIsFinal
  /\ ctxDone' = TRUE
  /\ consumer' = "cancelled"
  /\ UNCHANGED <<callVars, ticker, tickC, pc, o, err, conn, closeCalls,
                 emitted, rd, reads, readAfterCancel, received, placed>>

\* return: the deferred close(orders) runs
ReadmeClose ==
  /\ consumer = "cancelled"
  /\ consumer' = "closed"
  /\ UNCHANGED <<callVars, ticker, tickC, ctxDone, pc, o, err, conn,
                 closeCalls, emitted, rd, reads, readAfterCancel, received,
                 placed>>

\* a send of the goroutine on the closed channel panics
SendOnClosed ==
  /\ pc \in {"sendErr", "sendRes", "sendCancel"}
  /\ consumer = "closed"
  /\ pc' = "panic"
  /\ UNCHANGED <<callVars, ticker, tickC, ctxDone, o, err, conn, closeCalls,
                 emitted, rd, reads, readAfterCancel, received, consumer,
                 placed>>

ReadmeNext ==
  \/ CancelBranch
  \/ TickBranch
  \/ ReadFrame
  \/ ReadFail
  \/ ReadmeRecvErr
  \/ ReadmeRecvRes
  \/ ReadmeCancel
  \/ ReadmeClose
  \/ SendOnClosed
  \/ Tick
  \/ ServerEmit

ReadmeSpec == ReadmeInit /\ [][ReadmeNext]_vars

(* ---------------------------- PlaceOrder ------------------------------ *)
OrderKindRedeem == "redeem"
OrderKindIssue == "issue"

\* *PlaceOrderRequest: nil, or a request; of each string field what matters
\* is whether it is empty
PlaceOrderRequests ==
  {<<>>} \cup
  {<<r>> : r \in [Kind : {OrderKindRedeem, OrderKindIssue, ""},
                  Counterpart : {<<>>, <<"iban">>},
                  Message : {"", "msg"},
                  Signature : {"", "sig"},
                  AccountID : {"", "acc"},
                  Chain : {"", "ethereum"},
                  Currency : {"", "eur"},
                  Address : {"", "0x1"}]}

\* what c.post returns: an error, a body that does not unmarshal, an order
PostOutcomes == {"error", "garbage", "order"}

\* Validate with the address test failing only when all three are missing
Validate_AllMissing(req) ==
  IF req = <<>> THEN <<"PlaceOrderRequest is required">>
  ELSE LET r == req[1]
       IN IF r.Kind # OrderKindRedeem
            THEN <<"only redeem order is possible to be placed">>
          ELSE IF r.Counterpart = <<>>
            THEN <<"order counterpart is missing">>
          ELSE IF r.Message = "" \/ r.Signature = ""
            THEN <<"message or signature missing">>
          ELSE IF r.AccountID # "" THEN NoErr
          ELSE IF r.Chain = "" /\ r.Currency = "" /\ r.Address = ""
            THEN <<"either AccountID or Chain, Address and Currency are required">>
          ELSE NoErr

\* PlaceOrderRequest.Validate
Validate(req) ==
  IF req = <<>> THEN <<"PlaceOrderRequest is required">>
  ELSE LET r == req[1]
       IN IF r.Kind # OrderKindRedeem
            THEN <<"only redeem order is possible to be placed">>
          ELSE IF r.Counterpart = <<>>
            THEN <<"order counterpart is missing">>
          ELSE IF r.Message = "" \/ r.Signature = ""
            THEN <<"message or signature missing">>
          ELSE IF r.AccountID # "" THEN NoErr
          ELSE IF r.Chain = "" \/ r.Currency = "" \/ r.Address = ""
            THEN <<"either AccountID or Chain, Address and Currency are required">>
          ELSE NoErr

listenerVars == <<callVars, ticker, tickC, ctxDone, pc, o, err, conn,
                  closeCalls, emitted, rd, reads, readAfterCancel, received,
                  consumer>>

\* Client.PlaceOrder; out is what c.post returns when it is called
PlaceOrder(req, out) ==
  /\ LET verr == Validate(req)
     IN placed' =
          IF verr # NoErr
            THEN <<[req |-> req, posts |-> 0, order |-> NilOrder,
                    err |-> verr]>>
          ELSE IF out = "error"
            THEN <<[req |-> req, posts |-> 1, order |-> NilOrder,
                    err |-> <<"post failed">>]>>
          ELSE IF out = "garbage"
            THEN <<[req |-> req, posts |-> 1, order |-> NilOrder,
                    err |-> <<"invalid character">>]>>
          ELSE <<[req |-> req, posts |-> 1,
                  order |-> <<[ID |-> "o1", State |-> "placed"]>>,
                  err |-> NoErr]>>
  /\ UNCHANGED listenerVars

PlaceOrderCall ==
  \E req \in PlaceOrderRequests, out \in PostOutcomes : PlaceOrder(req, out)

PlaceNext == PlaceOrderCall

PlaceSpec == Init /\ [][PlaceNext]_vars

(* ---------------------------- properties ------------------------------ *)
IsSuccess(r) == r.Order # NilOrder /\ r.Error = NoErr
IsFailure(r) == r.Order = NilOrder /\ r.Error # NoErr
\* the result the cancellation branch sends
IsCancelResult(r) == r.Order = NilOrder /\ r.Error = ContextCanceled

CancelDelivered == \E i \in 1..Len(received) : IsCancelResult(received[i])

\* the orders of the successes received, in order
Successes ==
  LET ok == SelectSeq(received, IsSuccess)
  IN [i \in 1..Len(ok) |-> ok[i].Order[1]]

\* the orders of the well-formed frames among the first n emitted, in order
Decoded(n) ==
  LET wf == SelectSeq(SubSeq(emitted, 1, n), WellFormed)
  IN [i \in 1..Len(wf) |-> [ID |-> wf[i].bs.id, State |-> wf[i].bs.state]]

IsPrefix(s, t) == Len(s) <= Len(t) /\ SubSeq(t, 1, Len(s)) = s

\* C1: every OrderResult received on the sink has exactly one of Order and
\* Error populated.
C1_ExactlyOnePopulated ==
  \A i \in 1..Len(received) :
    IsSuccess(received[i]) \/ IsFailure(received[i])

\* C2: while the context is not cancelled and every read has returned a
\* frame, the sink has received exactly one result per frame read, in
\* order: a success for a well-formed frame, an error result for any other.
C2_OneDeliveryPerRead ==
  (pc = "select" /\ ~ctxDone /\ conn = "open") =>
    /\ Len(received) = rd
    /\ \A i \in 1..Len(received) :
         IF WellFormed(emitted[i])
           THEN /\ IsSuccess(received[i])
                /\ received[i].Order[1].State = emitted[i].bs.state
           ELSE IsFailure(received[i])

\* a received result that stems from a frame that does not decode or from
\* a lost connection, as opposed to the cancellation
FromBadInput(r) ==
  r.Error # NoErr /\ r.Error[Len(r.Error)] # ContextCanceled[1]

\* C3: when the goroutine has ended and nothing but the cancellation went
\* wrong (every frame well-formed, no network error), the sink has received
\* successes followed by exactly one cancellation result and nothing else.
C3_SuccessesThenOneCancel ==
  ( /\ pc = "done"
    /\ \A i \in 1..Len(emitted) : WellFormed(emitted[i])
    /\ \A i \in 1..Len(received) : ~FromBadInput(received[i]) ) =>
    /\ Len(received) >= 1
    /\ IsCancelResult(received[Len(received)])
    /\ \A i \in 1..(Len(received) - 1) : IsSuccess(received[i])

\* C4: the cancellation result is delivered at most once and is the last
\* value the goroutine sends: once it is delivered the goroutine has ended,
\* so it sends nothing more and starts no read.
C4_CancelResultOnceAndLast ==
  /\ Cardinality({i \in 1..Len(received) : IsCancelResult(received[i])}) <= 1
  /\ CancelDelivered =>
       /\ IsCancelResult(received[Len(received)])
       /\ pc = "done"
  /\ pc = "done" => CancelDelivered

C4_Witness ==
  /\ pc = "done"
  /\ Len(received) >= 3
  /\ IsSuccess(received[1])
  /\ \E i \in 1..Len(received) : FromBadInput(received[i])
  /\ rd < Len(emitted)
  /\ tickC = 1

\* C5: the cancellation branch closes the connection, then sends the final
\* result, then returns: the connection is closed, once, while the final
\* result waits to be received and ever after; and with a consumer that
\* keeps receiving, a started goroutine whose context is cancelled ends.
C5_CloseSendReturn ==
  /\ [](pc = "sendCancel" => (conn = "closed" /\ closeCalls = 1
                              /\ ~CancelDelivered))
  /\ [](CancelDelivered => (conn = "closed" /\ closeCalls = 1 /\ pc = "done"))
  /\ [](pc \notin {"sendCancel", "done"} => closeCalls = 0)
  /\ ((ctxDone /\ pc # "notStarted") ~> (pc = "done"))

C5_Witness ==
  /\ pc = "done"
  /\ conn = "closed"
  /\ CancelDelivered
  /\ reads >= 1

\* C6: if Token() fails, OrdersNotifications returns an error wrapping it,
\* does not dial, starts neither ticker nor goroutine, and the sink never
\* receives anything.
C6_TokenFailure ==
  (called /\ tokErr # NoErr) =>
    /\ retErr = Wrap("failed to get auth token", tokErr)
    /\ retErr # NoErr
    /\ tokenCalls = 1
    /\ dialCalls = 0
    /\ dialled = <<>>
    /\ conn = "none"
    /\ ~ticker
    /\ pc = "notStarted"
    /\ received = <<>>

C6_Witness == called /\ tokErr # NoErr /\ ctxDone

\* C7: if the token is acquired and the dial fails, OrdersNotifications
\* returns an error wrapping the dial error after a single dial, starts
\* neither ticker nor goroutine, and the sink never receives anything.
C7_DialFailure ==
  (called /\ tokErr = NoErr /\ dialErr # NoErr) =>
    /\ retErr = Wrap("failed to dial websocket", dialErr)
    /\ retErr # NoErr
    /\ dialCalls = 1
    /\ conn = "none"
    /\ ~ticker
    /\ tickC = 0
    /\ pc = "notStarted"
    /\ received = <<>>

C7_Witness == called /\ tokErr = NoErr /\ dialErr # NoErr /\ ctxDone

\* C8: the goroutine ends only by the cancellation branch: it has not ended
\* while the context is not cancelled, and once a read error is delivered
\* it goes on to the next send and from there back to the select.
C8_OnlyCancellationStops ==
  /\ [](pc = "done" => (ctxDone /\ closeCalls = 1))
  /\ [][(pc = "sendErr" /\ pc' # pc) => pc' = "sendRes"]_vars
  /\ [][(pc = "sendRes" /\ pc' # pc) => pc' = "select"]_vars

\* every read so far has failed, and the listener is reading again
C8_Witness ==
  /\ ~ctxDone
  /\ pc = "read"
  /\ reads = MaxReads
  /\ Len(received) >= 4
  /\ \A i \in 1..Len(received) : ~IsSuccess(received[i])

\* C9: the orders delivered as successes are a prefix of the well-formed
\* frames the server emitted, in emission order; between reads they are
\* exactly the well-formed frames among those read.
C9_SuccessesPrefixOfEmitted ==
  /\ IsPrefix(Successes, Decoded(Len(emitted)))
  /\ pc \in {"select", "sendCancel", "done"} => Successes = Decoded(rd)

C9_Witness ==
  /\ Len(Successes) = 3
  /\ Successes[1].State = "placed"
  /\ Successes[2].State = "pending"
  /\ Successes[3].State = "processed"

\* C10: once a read has started under the cancelled context, the goroutine
\* starts no further read: at most one read starts after the cancellation.
C10_AtMostOneReadAfterCancel ==
  [][readAfterCancel => reads' = reads]_vars

\* C11: a successful OrdersNotifications returns nil with the goroutine at
\* its select and nothing read or delivered: it waits for no tick, read or
\* receive; and every delivery on the sink is a send of the goroutine, made
\* after the call has returned.
C11_ReturnsWithoutWaiting ==
  /\ [][(~called /\ called' /\ retErr' = NoErr) =>
          /\ received' = <<>>
          /\ reads' = 0
          /\ rd' = 0
          /\ pc' = "select"]_vars
  /\ [][received' # received =>
          /\ called
          /\ pc \in {"sendErr", "sendRes", "sendCancel"}
          /\ pc' # pc]_vars

\* the call has returned nil and the goroutine is blocked on its first send,
\* which nobody has received
C11_Witness ==
  /\ called
  /\ retErr = NoErr
  /\ pc = "sendRes"
  /\ received = <<>>

\* the results received that report a failed read
ReadFailures ==
  Cardinality({i \in 1..Len(received) :
                 /\ received[i].Error # NoErr
                 /\ received[i].Error[1] = "failed to read order"})

\* results the reads finished so far have produced: one per read, and the
\* error result before it for a read that failed
Produced(finished) == finished + ReadFailures

\* C12: one goroutine reads and closes the connection, one read at a time;
\* a read starts only at the select, with no result waiting to be received;
\* no result is dropped: what the sink has received is what the finished
\* reads produced, each send delivers the value it holds, and with a
\* consumer that receives every waiting result is delivered.
C12_BlocksRatherThanDrops ==
  /\ [][reads' # reads =>
          (pc = "select" /\ pc' = "read" /\ reads' = reads + 1)]_vars
  /\ [][rd' # rd => pc = "read"]_vars
  /\ [][closeCalls' # closeCalls => pc = "select"]_vars
  /\ [](pc \in {"select", "sendCancel"} => Len(received) = Produced(reads))
  /\ [](pc \in {"read", "sendErr", "sendRes"} =>
          Len(received) = Produced(reads - 1))
  /\ [](pc = "done" => Len(received) = Produced(reads) + 1)
  /\ [][(pc = "sendRes" /\ pc' # pc) =>
          received' = Append(received, OrderResult(o, NoErr))]_vars
  /\ [][(pc = "sendErr" /\ pc' # pc) =>
          received' = Append(received,
             OrderResult(NilOrder, Wrap("failed to read order", err)))]_vars
  /\ (pc = "sendErr" ~> pc = "sendRes")
  /\ (pc = "sendRes" ~> pc = "select")

\* all reads done, a failed one among them, everything produced received
C12_Witness ==
  /\ pc = "select"
  /\ reads = MaxReads
  /\ ReadFailures >= 1
  /\ Len(Successes) >= 1
  /\ Len(received) = Produced(reads)

\* C13: with the consumer of the README, the goroutine never attempts a
\* send on the channel the consumer has closed.
C13_NoSendOnClosedChannel == pc # "panic"

\* C14: one call borrows the token once and dials at most once, before the
\* goroutine starts, and the goroutine does neither; once a read has failed
\* on the connection, every result the sink receives is an error result.
C14_NoRecovery ==
  /\ [](tokenCalls <= 1 /\ dialCalls <= 1)
  /\ [](pc # "notStarted" => (tokenCalls = 1 /\ dialCalls = 1))
  /\ [][pc # "notStarted" =>
          (tokenCalls' = tokenCalls /\ dialCalls' = dialCalls)]_vars
  /\ [][(conn = "broken" /\ received' # received) =>
          IsFailure(received'[Len(received')])]_vars

\* C15: the endpoint dialled depends on the request alone: wsURL/orders for
\* a nil request or an empty ProfileID, wsURL/profiles/<p>/orders for a
\* ProfileID p; and the dial carries Authorization: Bearer <the access token
\* Token() has just returned>.
C15_EndpointAndHeader ==
  dialled # <<>> =>
    LET r == args[1].req
        t == args[1].tok
        p == IF r = <<>> THEN "" ELSE r[1].ProfileID
    IN /\ Len(dialled) = 1
       /\ t # <<>>
       /\ p = "" => dialled[1].path = <<"wss://api", "/orders">>
       /\ p # "" => dialled[1].path = <<"wss://api", "/profiles/", p, "/orders">>
       /\ dialled[1].header = [Authorization |-> <<"Bearer ", t[1].AccessToken>>]

C15_Witness ==
  /\ dialled # <<>>
  /\ args[1].req = <<[ProfileID |-> "p1"]>>
  /\ args[1].tok = <<[AccessToken |-> "t2"]>>
  /\ dialled[1].path = <<"wss://api", "/profiles/", "p1", "/orders">>
  /\ conn = "open"

\* what the request of the last PlaceOrder call has, field by field
PlacedOk ==
  LET req == placed[1].req
  IN IF req = <<>> THEN FALSE
     ELSE /\ req[1].Kind = "redeem"
          /\ req[1].Counterpart # <<>>
          /\ req[1].Message # ""
          /\ req[1].Signature # ""
          /\ \/ req[1].AccountID # ""
             \/ (req[1].Chain # "" /\ req[1].Currency # ""
                 /\ req[1].Address # "")

\* C16: PlaceOrder posts exactly when the request is non-nil, of kind
\* redeem, with a counterpart, a message and a signature, and with an
\* AccountID or all of Chain, Currency and Address; for any other request it
\* returns (nil, error) and posts nothing.
C16_PlaceOrderValidates ==
  placed # <<>> =>
    /\ PlacedOk <=> Validate(placed[1].req) = NoErr
    /\ PlacedOk <=> placed[1].posts = 1
    /\ ~PlacedOk =>
         /\ placed[1].posts = 0
         /\ placed[1].order = NilOrder
         /\ placed[1].err # NoErr
    /\ (placed[1].order # NilOrder) => (PlacedOk /\ placed[1].err = NoErr)

\* an address-based redeem request that lacks only its Currency was refused
C16_Witness ==
  /\ placed # <<>>
  /\ placed[1].req # <<>>
  /\ placed[1].req[1] = [Kind |-> "redeem", Counterpart |-> <<"iban">>,
                         Message |-> "msg", Signature |-> "sig",
                         AccountID |-> "", Chain |-> "ethereum",
                         Currency |-> "", Address |-> "0x1"]
  /\ placed[1].posts = 0
  /\ placed[1].err # NoErr

\* C17: the goroutine calls Close on the connection at most once, only in
\* the cancellation branch and so only when the context is cancelled, however
\* many reads have failed; once Close has been called no further read starts.
C17_CloseOnceOnCancel ==
  /\ [](closeCalls <= 1)
  /\ [](closeCalls = 1 => (ctxDone /\ pc \in {"sendCancel", "done"}))
  /\ [][closeCalls' # closeCalls =>
          /\ ctxDone
          /\ pc = "select"
          /\ pc' = "sendCancel"
          /\ closeCalls' = closeCalls + 1]_vars
  /\ [][closeCalls >= 1 => (reads' = reads /\ pc' # "read")]_vars

\* the listener has stopped after two failed reads and one Close, with a
\* tick still waiting that it will never take
C17_Witness ==
  /\ pc = "done"
  /\ closeCalls = 1
  /\ ReadFailures >= 2
  /\ tickC = 1

====
